---- MODULE Spec2Model ----
(***************************************************************************)
(* Model of the mutation-evaluation harness of training-grammar-guru:      *)
(*   src/evaluate.py  (agreement scoring, rank_and_fix, Results, __main__) *)
(*   src/detect.py    (rank)                                               *)
(*                                                                         *)
(* Floating point probabilities are modelled as exact fixed-point numbers: *)
(* the integer One stands for 1.0 and the integer epsilon for              *)
(* sys.float_info.epsilon (the smallest positive unit).  Harmonic means    *)
(* are exact rationals <<numerator, denominator>>.                         *)
(* Python sequences are 0-based; At0(s, i) reads s[i].                     *)
(***************************************************************************)
EXTENDS Integers, Sequences, FiniteSets, TLC

\* ------------------------------------------------------------------------
\* Bounds of the model
\* ------------------------------------------------------------------------
MaxTrials == 2          \* mutations the harness loop iterates over
ExtraLen == 2           \* interior tokens of a program beyond sentence_length
TokensPerLine == 4      \* tokens on each source line of a program
MaxVocab == 3           \* length of the prediction vectors of the pure checks

\* ------------------------------------------------------------------------
\* Program constants
\* ------------------------------------------------------------------------
sentence_length == 20   \* SensibilityForEvaluation.sentence_length
start_id == 0           \* assert vector[0] == 0
end_id == 99            \* assert vector[-1] == 99
TopK == 3               \* least_agreements[:3]
One == 1000             \* the float 1.0
epsilon == 1            \* sys.float_info.epsilon
None == -1              \* Python's None

\* ------------------------------------------------------------------------
\* Python helpers
\* ------------------------------------------------------------------------
At0(s, i) == s[i + 1]

InRange0(s, i) == i >= 0 /\ i < Len(s)

Last(s) == s[Len(s)]

Abs(x) == IF x < 0 THEN -x ELSE x

Max2(a, b) == IF a >= b THEN a ELSE b

\* math.isclose(a, b, rel_tol = rel/100) with the default abs_tol = 0.0
isclose(a, b, relPercent) ==
    a = b \/ 100 * Abs(a - b) <= relPercent * Max2(Abs(a), Abs(b))

SumSeq(s) ==
    LET acc[k \in 0..Len(s)] == IF k = 0 THEN 0 ELSE acc[k - 1] + s[k]
    IN  acc[Len(s)]

\* enumerate(xs): the pairs <<0-based position, element>>
enumerate(xs) == [k \in 1..Len(xs) |-> <<k - 1, xs[k]>>]

Range(xs) == {xs[k] : k \in 1..Len(xs)}

\* One step of a stable sort: x, which followed every element of s in the
\* input, goes right before the first element it is strictly before
\* (before: the strict order, as a set of pairs).
InsertStable(s, x, before) ==
    LET later == {k \in 1..Len(s) : <<x, s[k]>> \in before}
        pos == IF later = {} THEN Len(s) + 1
               ELSE CHOOSE k \in later : \A j \in later : k <= j
    IN  SubSeq(s, 1, pos - 1) \o <<x>> \o SubSeq(s, pos, Len(s))

\* sorted(xs) under a strict order; stable, as Python's sort is
sorted(xs, before) ==
    LET acc[k \in 0..Len(xs)] ==
            IF k = 0 THEN <<>> ELSE InsertStable(acc[k - 1], xs[k], before)
    IN  acc[Len(xs)]

\* ------------------------------------------------------------------------
\* detect.rank
\* ------------------------------------------------------------------------
\* key=lambda t: t[1], reverse=True, on floats
KeyGreater(items) == {st \in items \X items : st[1][2] > st[2][2]}

\* mutant: reverse=True implemented by reversing an ascending sort, which
\* reverses the order of equal keys as well
rank_reversed(predictions) ==
    LET items == Range(enumerate(predictions))
        asc == sorted(enumerate(predictions), {st \in items \X items : st[1][2] < st[2][2]})
    IN  [k \in 1..Len(asc) |-> asc[Len(asc) + 1 - k]]

rank(predictions) ==
    sorted(enumerate(predictions), KeyGreater(Range(enumerate(predictions))))

\* the same sort on exact rationals <<n, d>>, d > 0
RatGreater(items) ==
    {st \in items \X items : st[1][2][1] * st[2][2][2] > st[2][2][1] * st[1][2][2]}

rank_rational(values) ==
    sorted(enumerate(values), RatGreater(Range(enumerate(values))))

\* ------------------------------------------------------------------------
\* evaluate.py: agreement metrics
\* ------------------------------------------------------------------------
\* fix_zeros(preds): the contents of the array preds after the call.
\* math.isclose(pred, 0.0) is true of exactly 0.0 (relative tolerance only).
fix_zeros(preds) ==
    [i \in 1..Len(preds) |-> IF isclose(preds[i], 0, 0) THEN epsilon ELSE preds[i]]

\* element-wise harmonic mean 2ab / (a + b) of two positive vectors
harmonic_mean(a, b) ==
    [i \in 1..Len(a) |-> <<2 * a[i] * b[i], a[i] + b[i]>>]

\* harmonic_mean_agreement: the returned min_prob and the two argument
\* arrays as the call leaves them
harmonic_mean_agreement(prefix_pred, suffix_pred) ==
    LET p == fix_zeros(prefix_pred)
        s == fix_zeros(suffix_pred)
        mean == harmonic_mean(p, s)
        paired_rankings == rank_rational(mean)
    IN  [min_prob |-> paired_rankings[1][2], prefix_pred |-> p, suffix_pred |-> s]

\* mutant: the negation of the error is dropped
squared_error_positive(prefix_pred, suffix_pred) ==
    SumSeq([i \in 1..Len(prefix_pred) |->
               (prefix_pred[i] - suffix_pred[i]) * (prefix_pred[i] - suffix_pred[i])])

squared_error_agreement(prefix_pred, suffix_pred) ==
    LET entropy == SumSeq([i \in 1..Len(prefix_pred) |->
               (prefix_pred[i] - suffix_pred[i]) * (prefix_pred[i] - suffix_pred[i])])
    IN  -entropy

\* ------------------------------------------------------------------------
\* Collaborators whose code is not among the sources (modelled from the
\* specification's data model and component contracts)
\* ------------------------------------------------------------------------
\* vectorize_tokens: the ids of the tokens between the two sentinels
vectorize_tokens(ids) == <<start_id>> \o ids \o <<end_id>>

\* Forward windows: the size ids immediately preceding the target.  The
\* first window is the one whose target is file_vector[size], the pairing
\* rank_and_fix asserts; the sentinels are never targets.
SentencesForward(vector, size) ==
    [j \in 1..Max2(0, Len(vector) - 1 - size) |->
        [context |-> SubSeq(vector, j, j + size - 1),
         target |-> At0(vector, j - 1 + size)]]

\* Backward windows: one per interior position, the size ids following the
\* target, padded with the end id past the end of the file.
SentencesBackward(vector, size) ==
    [k \in 1..Max2(0, Len(vector) - 2) |->
        [context |-> [d \in 1..size |->
                         IF k + d < Len(vector) THEN At0(vector, k + d) ELSE end_id],
         target |-> At0(vector, k)]]

\* chop_prefix: drops the backward windows that precede the first forward one
chop_prefix(windows) ==
    IF Len(windows) < sentence_length THEN <<>>
    ELSE SubSeq(windows, sentence_length, Len(windows))

zip(a, b) ==
    [k \in 1..(IF Len(a) <= Len(b) THEN Len(a) ELSE Len(b)) |-> <<a[k], b[k]>>]

\* index_of_max: the id of the top prediction
index_of_max(pred) == rank(pred)[1][1]

\* Agreement(probability, index): ordered by score, then by index
AgreementLess(items) ==
    {ab \in items \X items :
        \/ ab[1].probability < ab[2].probability
        \/ ab[1].probability = ab[2].probability /\ ab[1].index < ab[2].index}

\* The syntax checker, an external oracle fixed for a trial: "exact" accepts
\* the known-good program only, "length" every stream of its length.
Grammars == {"exact", "length"}

check_syntax(grammar, good, stream) ==
    CASE grammar = "exact" -> stream = good
      [] grammar = "length" -> Len(stream) = Len(good)
      [] OTHER -> FALSE

\* Mutation.format / SourceCode: the mutation applied to the file vector,
\* location being an index of the pre-mutation vector
apply_to_vector(m, vector) ==
    LET k == m.location
    IN  CASE m.name = "insert" ->
                SubSeq(vector, 1, k) \o <<m.token>> \o SubSeq(vector, k + 1, Len(vector))
          [] m.name = "remove" ->
                SubSeq(vector, 1, k) \o SubSeq(vector, k + 2, Len(vector))
          [] OTHER ->
                [i \in 1..Len(vector) |-> IF i = k + 1 THEN m.token ELSE vector[i]]

Interior(vector) == SubSeq(vector, 2, Len(vector) - 1)

\* Fixes(tokens, offset=1): the streams the candidates are validated on
remove_at(ids, pos) == SubSeq(ids, 1, pos - 1) \o SubSeq(ids, pos + 1, Len(ids))

insert_at(ids, pos, token) == SubSeq(ids, 1, pos - 1) \o <<token>> \o SubSeq(ids, pos, Len(ids))

\* an order-preserving collection that de-duplicates by structural equality
FixesAdd(fixes, f) ==
    IF \E k \in 1..Len(fixes) : fixes[k] = f THEN fixes ELSE Append(fixes, f)

\* ------------------------------------------------------------------------
\* evaluate.py: SensibilityForEvaluation
\* ------------------------------------------------------------------------
contexts(file_vector) ==
    zip(SentencesForward(file_vector, sentence_length),
        chop_prefix(SentencesBackward(file_vector, sentence_length)))

\* what the loop of rank_and_fix reads of each zipped context besides the
\* two predictor inputs: the forward and the backward target
TargetsOf(ctxs) == [k \in 1..Len(ctxs) |-> <<ctxs[k][1].target, ctxs[k][2].target>>]

\* mutant: the insertions are tried before the removal
CandidatesAt_insert_first(ids, pos, fwd, bwd) ==
    << [fix |-> [kind |-> "insert", location |-> pos, token |-> At0(fwd, pos)],
        stream |-> insert_at(ids, pos, At0(fwd, pos))],
       [fix |-> [kind |-> "insert", location |-> pos, token |-> At0(bwd, pos)],
        stream |-> insert_at(ids, pos, At0(bwd, pos))],
       [fix |-> [kind |-> "remove", location |-> pos, token |-> None],
        stream |-> remove_at(ids, pos)] >>

\* The candidates of one disagreement, in the order rank_and_fix tries them
CandidatesAt(ids, pos, fwd, bwd) ==
    << [fix |-> [kind |-> "remove", location |-> pos, token |-> None],
        stream |-> remove_at(ids, pos)],
       [fix |-> [kind |-> "insert", location |-> pos, token |-> At0(fwd, pos)],
        stream |-> insert_at(ids, pos, At0(fwd, pos))],
       [fix |-> [kind |-> "insert", location |-> pos, token |-> At0(bwd, pos)],
        stream |-> insert_at(ids, pos, At0(bwd, pos))] >>

\* every candidate of the top disagreements, in generation order
Candidates(ids, agreements, fwd, bwd) ==
    LET top == SubSeq(agreements, 1, IF Len(agreements) < TopK THEN Len(agreements) ELSE TopK)
        acc[k \in 0..Len(top)] ==
            IF k = 0 THEN <<>>
            ELSE acc[k - 1] \o CandidatesAt(ids, top[k].index, fwd, bwd)
    IN  acc[Len(top)]

\* the Fixes collection after every try_remove / try_insert
ValidatedFixes(cands, grammar, good) ==
    LET acc[k \in 0..Len(cands)] ==
            IF k = 0 THEN <<>>
            ELSE IF check_syntax(grammar, good, cands[k].stream)
                 THEN FixesAdd(acc[k - 1], cands[k].fix)
                 ELSE acc[k - 1]
    IN  acc[Len(cands)]

NoFix == [kind |-> "None", location |-> None, token |-> None]

\* fix = None if not fixes else tuple(fixes)[0]
first_fix(fixes) == IF Len(fixes) = 0 THEN NoFix ELSE fixes[1]

\* ------------------------------------------------------------------------
\* evaluate.py: the harness
\* ------------------------------------------------------------------------
\* tokens = ('start',) + tokens + ('end',): two strings around the Tokens
Padding == [kind |-> "str", line |-> None]

PadTokens(lines) ==
    <<Padding>> \o [k \in 1..Len(lines) |-> [kind |-> "Token", line |-> lines[k]]] \o <<Padding>>

\* tokens[i].line: IndexError out of range, AttributeError on a string
LineAt(tokens, i) ==
    IF ~InRange0(tokens, i) THEN [error |-> "IndexError", line |-> None]
    ELSE IF At0(tokens, i).kind = "str" THEN [error |-> "AttributeError", line |-> None]
    ELSE [error |-> "none", line |-> At0(tokens, i).line]

\* first_with_line_no: the rank returned, or the exception raised on the way
first_with_line_no(disagreements, correct_line, tokens) ==
    LET scan[k \in 1..(Len(disagreements) + 1)] ==
            IF k > Len(disagreements) THEN [error |-> "none", rank |-> None]
            ELSE LET l == LineAt(tokens, disagreements[k].index)
                 IN  IF l.error # "none" THEN [error |-> l.error, rank |-> None]
                     ELSE IF l.line = correct_line THEN [error |-> "none", rank |-> k]
                     ELSE scan[k + 1]
    IN  scan[1]

\* ------------------------------------------------------------------------
\* Inputs of a trial, drawn from the external stores
\* ------------------------------------------------------------------------
ProgramLen == sentence_length + ExtraLen

\* the ids of the known-good program
GoodIds == [k \in 1..ProgramLen |-> IF k % 2 = 1 THEN 1 ELSE 2]

\* vectors[file_hash]: well-formed, or corrupted at either sentinel
Vectors ==
    { vectorize_tokens(GoodIds),
      <<1>> \o GoodIds \o <<end_id>>,
      <<start_id>> \o GoodIds \o <<1>> }

\* corpus.get_tokens(file_hash): the line of each token; the corpus is a
\* store of its own and may hold one token less than the vector
LinesOf(n) == [k \in 1..n |-> ((k - 1) \div TokensPerLine) + 1]

CorpusTokens == { LinesOf(ProgramLen), LinesOf(ProgramLen - 1) }

Mutations ==
    { [name |-> "insert", location |-> l, token |-> 2] : l \in {2, sentence_length + 1} }
    \cup { [name |-> "remove", location |-> l, token |-> None] : l \in {2, sentence_length + 1} }
    \cup { [name |-> "substitute", location |-> l, token |-> 2] : l \in {2, sentence_length + 1} }

\* get_prediction: the (forward, backward) distributions the predictors can
\* return; the last pair does not sum to 1.0
PredictionPairs ==
    { << <<1000, 0, 0>>, <<0, 1000, 0>> >>,
      << <<500, 500, 0>>, <<500, 500, 0>> >>,
      << <<100, 500, 400>>, <<100, 500, 400>> >>,
      << <<100, 500, 400>>, <<500, 100, 400>> >>,
      << <<500, 0, 0>>, <<1000, 0, 0>> >> }

\* ------------------------------------------------------------------------
\* State
\* ------------------------------------------------------------------------
VARIABLES
    pc,                     \* position of the main program
    trial,                  \* mutations taken from the iterator so far
    error,                  \* the exception that ended the run, and its phase
    vector, tokens, mutation, correct_line,     \* locals of the loop body
    grammar,                \* the syntax checker's verdicts for this trial
    mutated_file,           \* the temporary file: "none", "open", "closed"
    results_file,           \* results.csv: "open", "closed"
    mtokens, file_vector,   \* rank_and_fix: tokens and vector of the mutated file
    windows,                \* the zipped contexts: <<forward target, backward target>>
    done,                   \* contexts consumed by the loop of rank_and_fix
    least_agreements, forwards_predictions, backwards_predictions,
    prefix_pred, suffix_pred,   \* the arrays of the last iteration, as it left them
    fetched,                \* per index, the arrays as get_prediction returned them
    tried,                  \* the candidates in the order they were generated
    ranked_locations, fix,  \* what rank_and_fix returned
    rows,                   \* rows handed to the csv writer
    flushed,                \* rows that reached results.csv
    written_in,             \* per row, the trial that wrote it
    args, result            \* argument arrays and result of a direct call

harness_vars ==
    <<pc, trial, error, vector, tokens, mutation, correct_line, grammar,
      mutated_file, results_file, mtokens, file_vector, windows, done,
      least_agreements,
      forwards_predictions, backwards_predictions, prefix_pred, suffix_pred,
      fetched, tried, ranked_locations, fix, rows, flushed, written_in>>

vars == <<harness_vars, args, result>>

NoError == [type |-> "none", phase |-> "none"]

NoMutation == [name |-> "None", location |-> None, token |-> None]

\* the locals of a trial before the trial starts
TrialLocalsCleared ==
    /\ vector' = <<>>
    /\ tokens' = <<>>
    /\ mutation' = NoMutation
    /\ correct_line' = None
    /\ grammar' = "none"
    /\ mtokens' = <<>>
    /\ file_vector' = <<>>
    /\ windows' = <<>>
    /\ done' = 0
    /\ least_agreements' = <<>>
    /\ forwards_predictions' = <<>>
    /\ backwards_predictions' = <<>>
    /\ prefix_pred' = <<>>
    /\ suffix_pred' = <<>>
    /\ fetched' = <<>>
    /\ tried' = <<>>
    /\ ranked_locations' = <<>>
    /\ fix' = NoFix

\* with Mutations() as mutations, Results() as results: the header is
\* written, the loop is about to fetch the first mutation
HarnessInit ==
    /\ pc = "load"
    /\ trial = 0
    /\ error = NoError
    /\ vector = <<>>
    /\ tokens = <<>>
    /\ mutation = NoMutation
    /\ correct_line = None
    /\ grammar = "none"
    /\ mutated_file = "none"
    /\ results_file = "open"
    /\ mtokens = <<>>
    /\ file_vector = <<>>
    /\ windows = <<>>
    /\ done = 0
    /\ least_agreements = <<>>
    /\ forwards_predictions = <<>>
    /\ backwards_predictions = <<>>
    /\ prefix_pred = <<>>
    /\ suffix_pred = <<>>
    /\ fetched = <<>>
    /\ tried = <<>>
    /\ ranked_locations = <<>>
    /\ fix = NoFix
    /\ rows = <<>>
    /\ flushed = 0
    /\ written_in = <<>>

Init ==
    /\ HarnessInit
    /\ args = <<>>
    /\ result = <<>>

\* An exception leaves the with statement: Results.__exit__ closes the file
\* and the program ends.  The temporary file is left as the raising
\* statement's own scope leaves it.
Raise(type, phase, temp) ==
    /\ pc' = "aborted"
    /\ error' = [type |-> type, phase |-> phase]
    /\ results_file' = "closed"
    /\ flushed' = Len(rows)
    /\ mutated_file' = temp

\* ------------------------------------------------------------------------
\* Results
\* ------------------------------------------------------------------------
\* mutant: the row stays in the writer's buffer
write_unflushed(row) ==
    /\ rows' = Append(rows, row)
    /\ written_in' = Append(written_in, trial)
    /\ UNCHANGED flushed

\* Results.write: writerow, then flush
write(row) ==
    /\ rows' = Append(rows, row)
    /\ written_in' = Append(written_in, trial)
    /\ flushed' = Len(rows) + 1

\* ------------------------------------------------------------------------
\* The main program, one action per phase of a trial
\* ------------------------------------------------------------------------
\* LOAD: the next (file_hash, mutation), its vector and its tokens
Load ==
    /\ pc = "load"
    /\ trial < MaxTrials
    /\ \E v \in Vectors, lines \in CorpusTokens, m \in Mutations, g \in Grammars :
        /\ trial' = trial + 1
        /\ vector' = v
        /\ mutation' = m
        /\ grammar' = g
        /\ IF At0(v, 0) # start_id \/ Last(v) # end_id
           THEN /\ Raise("AssertionError", "LOAD", mutated_file)
                /\ UNCHANGED <<tokens, correct_line>>
           ELSE LET padded == PadTokens(lines)
                    at == LineAt(padded, m.location)
                IN  /\ tokens' = padded
                    /\ IF at.error # "none"
                       THEN /\ Raise(at.error, "LOAD", mutated_file)
                            /\ UNCHANGED correct_line
                       ELSE /\ correct_line' = at.line
                            /\ pc' = "mutate"
                            /\ UNCHANGED <<error, results_file, mutated_file, flushed>>
    /\ UNCHANGED <<mtokens, file_vector, windows, done, least_agreements,
                   forwards_predictions, backwards_predictions, prefix_pred,
                   suffix_pred, fetched, tried, ranked_locations, fix, rows,
                   written_in, args, result>>

\* MUTATE: apply_mutation creates the temporary file and writes the mutated
\* program into it; a failing write propagates with the file still open
Mutate ==
    /\ pc = "mutate"
    /\ \E written \in BOOLEAN :
        IF written
        THEN /\ mutated_file' = "open"
             /\ pc' = "tokenize"
             /\ UNCHANGED <<error, results_file, flushed>>
        ELSE Raise("OSError", "MUTATE", "open")
    /\ UNCHANGED <<trial, vector, tokens, mutation, correct_line, grammar, mtokens,
                   file_vector, windows, done, least_agreements, forwards_predictions,
                   backwards_predictions, prefix_pred, suffix_pred, fetched,
                   tried, ranked_locations, fix, rows, written_in, args, result>>

\* DETECT, entry of rank_and_fix: tokenize and vectorize the mutated file
Tokenize ==
    /\ pc = "tokenize"
    /\ \E tokenized \in BOOLEAN :
        IF tokenized
        THEN /\ mtokens' = Interior(apply_to_vector(mutation, vector))
             /\ file_vector' = vectorize_tokens(mtokens')
             /\ windows' = TargetsOf(contexts(file_vector'))
             /\ least_agreements' = <<>>
             /\ forwards_predictions' = [k \in 1..sentence_length |-> None]
             /\ backwards_predictions' = [k \in 1..sentence_length |-> None]
             /\ done' = 0
             /\ pc' = "detect"
             /\ UNCHANGED <<error, results_file, mutated_file, flushed>>
        ELSE /\ Raise("CalledProcessError", "DETECT", "closed")
             /\ UNCHANGED <<mtokens, file_vector, windows, least_agreements,
                            forwards_predictions, backwards_predictions, done>>
    /\ UNCHANGED <<trial, vector, tokens, mutation, correct_line, grammar,
                   prefix_pred, suffix_pred, fetched, tried, ranked_locations,
                   fix, rows, written_in, args, result>>

\* DETECT, one iteration of the loop over the contexts
Iterate ==
    /\ pc = "detect"
    /\ done < Len(windows)
    /\ LET index == sentence_length + done
           token == windows[done + 1][1]
       IN  IF ~InRange0(file_vector, index)
           THEN /\ Raise("IndexError", "DETECT", "closed")
                /\ UNCHANGED <<done, least_agreements, forwards_predictions,
                               backwards_predictions, prefix_pred, suffix_pred, fetched>>
           ELSE IF token # At0(file_vector, index)
           THEN /\ Raise("AssertionError", "DETECT", "closed")
                /\ UNCHANGED <<done, least_agreements, forwards_predictions,
                               backwards_predictions, prefix_pred, suffix_pred, fetched>>
           ELSE \E predicted \in BOOLEAN, pair \in PredictionPairs :
                IF ~predicted
                THEN /\ Raise("PredictorError", "DETECT", "closed")
                     /\ UNCHANGED <<done, least_agreements, forwards_predictions,
                                    backwards_predictions, prefix_pred, suffix_pred, fetched>>
                ELSE IF ~isclose(SumSeq(pair[1]), One, 1) \/ ~isclose(SumSeq(pair[2]), One, 1)
                THEN /\ Raise("AssertionError", "DETECT", "closed")
                     /\ UNCHANGED <<done, least_agreements, forwards_predictions,
                                    backwards_predictions, prefix_pred, suffix_pred, fetched>>
                ELSE LET agreement == [probability |-> squared_error_agreement(pair[1], pair[2]),
                                       index |-> index]
                         printed == harmonic_mean_agreement(pair[1], pair[2])
                     IN  /\ forwards_predictions' = Append(forwards_predictions, index_of_max(pair[1]))
                         /\ backwards_predictions' = Append(backwards_predictions, index_of_max(pair[2]))
                         /\ fetched' = Append(fetched, [index |-> index, prefix |-> pair[1], suffix |-> pair[2]])
                         /\ prefix_pred' = printed.prefix_pred
                         /\ suffix_pred' = printed.suffix_pred
                         /\ least_agreements' = Append(least_agreements, agreement)
                         /\ done' = done + 1
                         /\ UNCHANGED <<pc, error, results_file, mutated_file, flushed>>
    /\ UNCHANGED <<trial, vector, tokens, mutation, correct_line, grammar, mtokens,
                   file_vector, windows, tried, ranked_locations, fix, rows, written_in,
                   args, result>>

\* FIX: sort the agreements, try the candidates of the top disagreements,
\* return; the with statement of the trial closes the temporary file
Synthesize ==
    /\ pc = "detect"
    /\ done = Len(windows)
    /\ LET ranked == sorted(least_agreements, AgreementLess(Range(least_agreements)))
           cands == Candidates(mtokens, ranked, forwards_predictions, backwards_predictions)
       IN  \E checked \in BOOLEAN :
           IF ~checked /\ Len(cands) > 0
           THEN /\ Raise("CheckerError", "FIX", "closed")
                /\ least_agreements' = ranked
                /\ UNCHANGED <<tried, ranked_locations, fix>>
           ELSE /\ least_agreements' = ranked
                /\ tried' = cands
                /\ fix' = first_fix(ValidatedFixes(cands, grammar, Interior(vector)))
                /\ ranked_locations' = ranked
                /\ mutated_file' = "closed"
                /\ pc' = "record"
                /\ UNCHANGED <<error, results_file, flushed>>
    /\ UNCHANGED <<trial, vector, tokens, mutation, correct_line, grammar, mtokens,
                   file_vector, windows, done, forwards_predictions, backwards_predictions,
                   prefix_pred, suffix_pred, fetched, rows, written_in, args, result>>

\* RECORD: the line of the top location, the rank of the correct line,
\* the row; then the loop goes on to the next mutation
Record ==
    /\ pc = "record"
    /\ LET top == IF Len(ranked_locations) = 0
                  THEN [error |-> "IndexError", line |-> None]
                  ELSE LineAt(tokens, ranked_locations[1].index)
           found == first_with_line_no(ranked_locations, correct_line, tokens)
       IN  IF top.error # "none"
           THEN /\ Raise(top.error, "RECORD", mutated_file)
                /\ UNCHANGED <<trial, vector, tokens, mutation, correct_line, grammar,
                               mtokens, file_vector, windows, done, least_agreements,
                               forwards_predictions, backwards_predictions, prefix_pred,
                               suffix_pred, fetched, tried, ranked_locations, fix,
                               rows, written_in>>
           ELSE IF found.error # "none"
           THEN /\ Raise(found.error, "RECORD", mutated_file)
                /\ UNCHANGED <<trial, vector, tokens, mutation, correct_line, grammar,
                               mtokens, file_vector, windows, done, least_agreements,
                               forwards_predictions, backwards_predictions, prefix_pred,
                               suffix_pred, fetched, tried, ranked_locations, fix,
                               rows, written_in>>
           ELSE /\ write([fold |-> 0, file |-> "hash",
                          mkind |-> mutation.name, mtoken |-> mutation.token,
                          mpos |-> mutation.location,
                          correct_line |-> correct_line,
                          line_of_top_rank |-> top.line,
                          rank_correct_line |-> found.rank,
                          fixed |-> (fix # NoFix),
                          fkind |-> fix.kind, fpos |-> fix.location,
                          ftoken |-> fix.token, same_fix |-> None])
                /\ pc' = "load"
                /\ mutated_file' = "none"
                /\ TrialLocalsCleared
                /\ UNCHANGED <<trial, error, results_file>>
    /\ UNCHANGED <<args, result>>

\* The iterator over the mutations is exhausted: both with blocks exit
Finish ==
    /\ pc = "load"
    /\ pc' = "finished"
    /\ results_file' = "closed"
    /\ flushed' = Len(rows)
    /\ UNCHANGED <<trial, error, vector, tokens, mutation, correct_line, grammar,
                   mutated_file, mtokens, file_vector, windows, done, least_agreements,
                   forwards_predictions, backwards_predictions, prefix_pred,
                   suffix_pred, fetched, tried, ranked_locations, fix, rows,
                   written_in, args, result>>

Next == Load \/ Mutate \/ Tokenize \/ Iterate \/ Synthesize \/ Record \/ Finish

Spec == Init /\ [][Next]_vars

\* The first trial alone: one pass of the loop body, one call of rank_and_fix
FirstLoad == trial = 0 /\ Load

NextOneTrial == FirstLoad \/ Mutate \/ Tokenize \/ Iterate \/ Synthesize \/ Record

SpecOneTrial == Init /\ [][NextOneTrial]_vars

\* ------------------------------------------------------------------------
\* Direct calls of rank and harmonic_mean_agreement on arbitrary arrays
\* ------------------------------------------------------------------------
ProbValues == {0, 100, 400, 500}

Arrays(n) == [1..n -> ProbValues]

InitDirect ==
    /\ HarnessInit
    /\ \E n \in 1..MaxVocab : args \in Arrays(n) \X Arrays(n)
    /\ result = <<>>

CallRank ==
    /\ args # <<>>
    /\ result = <<>>
    /\ result' = [fn |-> "rank", given |-> args, value |-> rank(args[1])]
    /\ UNCHANGED <<harness_vars, args>>

CallHarmonicMeanAgreement ==
    /\ args # <<>>
    /\ result = <<>>
    /\ LET r == harmonic_mean_agreement(args[1], args[2])
       IN  /\ result' = [fn |-> "harmonic_mean_agreement", given |-> args,
                         value |-> r.min_prob]
           /\ args' = <<r.prefix_pred, r.suffix_pred>>
    /\ UNCHANGED harness_vars

NextDirect == CallRank \/ CallHarmonicMeanAgreement

SpecDirect == InitDirect /\ [][NextDirect]_vars

\* ------------------------------------------------------------------------
\* Properties
\* ------------------------------------------------------------------------
MinOf(S) == CHOOSE x \in S : \A y \in S : x <= y

\* the sum of squared element-wise differences of two arrays
SqDiff(f, b) ==
    LET d[k \in 0..Len(f)] ==
            IF k = 0 THEN 0 ELSE d[k - 1] + (f[k] - b[k]) * (f[k] - b[k])
    IN  d[Len(f)]

\* the arrays get_prediction returned for the position ranked at place k
FetchedFor(k) ==
    CHOOSE e \in {fetched[j] : j \in 1..Len(fetched)} : e.index = ranked_locations[k].index

\* an id of maximal probability, the lowest such id
TopId(pred) ==
    MinOf({i \in 0..(Len(pred) - 1) : \A j \in 1..Len(pred) : pred[j] <= At0(pred, i)})

\* C1: when rank_and_fix has returned, the candidates were generated for the
\* top three ranked positions in rank order, at each position as remove,
\* insert of the forward prediction, insert of the backward prediction; the
\* fix is the first generated candidate the syntax checker accepts, and it
\* is None exactly when the checker accepts none of them.
C1_FirstValidatedCandidate ==
    pc = "record" =>
        LET n == IF Len(ranked_locations) < TopK THEN Len(ranked_locations) ELSE TopK
            accepted == {j \in 1..Len(tried) :
                            check_syntax(grammar, Interior(vector), tried[j].stream)}
        IN  /\ Len(tried) = 3 * n
            /\ \A k \in 1..n :
                LET pos == ranked_locations[k].index
                IN  /\ tried[3 * k - 2].fix = [kind |-> "remove", location |-> pos, token |-> None]
                    /\ Len(tried[3 * k - 2].stream) = Len(mtokens) - 1
                    /\ tried[3 * k - 1].fix =
                         [kind |-> "insert", location |-> pos, token |-> TopId(FetchedFor(k).prefix)]
                    /\ tried[3 * k].fix =
                         [kind |-> "insert", location |-> pos, token |-> TopId(FetchedFor(k).suffix)]
                    /\ Len(tried[3 * k].stream) = Len(mtokens) + 1
            /\ IF accepted = {} THEN fix = NoFix
               ELSE fix = tried[MinOf(accepted)].fix /\ fix # NoFix

\* C1 witness: the removal at the top position is rejected and a later
\* candidate is the fix
C1_Witness ==
    /\ pc = "record"
    /\ Len(tried) > 3
    /\ ~check_syntax(grammar, Interior(vector), tried[1].stream)
    /\ fix # NoFix
    /\ fix.kind = "insert"

C3_AlignedPastLoad ==
    pc \in {"mutate", "tokenize", "detect", "record"} =>
        /\ At0(vector, 0) = start_id
        /\ Last(vector) = end_id
        /\ Len(vector) = (Len(tokens) - 2) + 2

\* C4: RECORD never fails on a ranked position: a position that indexes a
\* padded start/end entry is on no line, so the rank is the no-rank
\* sentinel or a later rank, and the row is written.
C4_RecordNeverFailsOnPadding ==
    ~(pc = "aborted" /\ error.phase = "RECORD" /\ error.type = "AttributeError")

C6_RankTotalOrder ==
    (result # <<>> /\ result.fn = "rank") =>
        LET in == result.given[1]
            out == result.value
        IN  /\ Len(out) = Len(in)
            /\ \A i \in 0..(Len(in) - 1) :
                Cardinality({k \in 1..Len(out) : out[k] = <<i, At0(in, i)>>}) = 1
            /\ \A a, b \in 1..Len(out) :
                a < b => \/ out[a][2] > out[b][2]
                         \/ out[a][2] = out[b][2] /\ out[a][1] < out[b][1]
            /\ in = <<100, 500, 400>> => out = << <<1, 500>>, <<2, 400>>, <<0, 100>> >>

\* C6 witness: rank was applied to three probabilities, two of them equal
C6_Witness ==
    /\ result # <<>>
    /\ result.fn = "rank"
    /\ result.given[1] = <<400, 100, 400>>
    /\ result.value = << <<0, 400>>, <<2, 400>>, <<1, 100>> >>

\* C7: the ranked list holds exactly one Agreement for each interior index
\* 1..n-2 of the mutated file vector, and the target of the context paired
\* with an index is the file vector's entry at that index.
C7_EveryInteriorPositionScored ==
    pc = "record" =>
        /\ Len(ranked_locations) = Len(file_vector) - 2
        /\ \A j \in 1..Len(windows) :
               windows[j][1] = At0(file_vector, fetched[j].index)
        /\ {ranked_locations[k].index : k \in 1..Len(ranked_locations)}
               = 1..(Len(file_vector) - 2)

\* C8: after a position has been processed, the forward and backward arrays
\* hold the values get_prediction returned.
C8_PredictionsNotMutated ==
    (pc = "detect" /\ done > 0) =>
        /\ prefix_pred = fetched[done].prefix
        /\ suffix_pred = fetched[done].suffix

\* C9: when the run has ended, by exhaustion or by an exception of a trial,
\* the temporary file of the trial is not open and results.csv is closed.
C9_ResourcesReleased ==
    pc \in {"aborted", "finished"} =>
        /\ mutated_file # "open"
        /\ results_file = "closed"

\* C10: harmonic_mean_agreement returns the least entry of the element-wise
\* harmonic mean of the zero-substituted arrays.
C10_ReturnsMinimum ==
    (result # <<>> /\ result.fn = "harmonic_mean_agreement") =>
        LET mean == harmonic_mean(fix_zeros(result.given[1]), fix_zeros(result.given[2]))
        IN  \A i \in 1..Len(mean) :
                result.value[1] * mean[i][2] <= mean[i][1] * result.value[2]

====
